---- MODULE Spec2Model ----
(***************************************************************************)
(* Model of build_within_docker.main: the sequential build pipeline that   *)
(* discovers contract directories, builds each one in the shared scratch   *)
(* directory /tmp/elrond-contract-rust, collects the artifacts, writes     *)
(* artifacts.json and normalises the ownership of the output tree.         *)
(*                                                                         *)
(* The file system is modelled by its relevant parts: the project tree     *)
(* (unit marker, wasm/Cargo.lock, directories left by a local build), the  *)
(* scratch directory (a set of files tagged with the unit they came from), *)
(* the output tree (one subdirectory per informal name, artifacts.json)    *)
(* and the owner of every path.  External tools (cargo, wasm2wat,          *)
(* wasm-objdump) and the operating system calls that may fail (rmtree      *)
(* with ignore_errors, chown) are nondeterministic.                        *)
(***************************************************************************)
EXTENDS Integers, Sequences, FiniteSets, TLC

\* ---------------------------------------------------------------- bounds
\* Number of lines of an import dump.
MaxLines == 2
\* Number of directories of the project tree that may carry elrond.json.
NumDirs == 2
\* Number of consecutive runs of main over the same file system.
MaxRuns == 2
\* Number of failures in one behaviour: a tool that fails or leaves a file out,
\* an rmtree or a chown that fails.
MaxFaults == 1

Dirs == 1..NumDirs

\* The base names that the directories may have: a name is numbered by the
\* first directory that has it.
Names == 1..NumDirs

\* The six artifact kinds of gather_artifacts, in the order it looks them up.
Kinds == <<"bytecode", "text", "abi", "imports", "codehash", "src">>

KindSet == {Kinds[i] : i \in 1..Len(Kinds)}

\* Return codes of subprocess.run: an exit code, or -N when killed by signal N.
ReturnCodes == {0, 2, -9}

\* Directories that clean() removes.
TargetDirs == {"wasm/target", "meta/target"}

CargoLock == "wasm/Cargo.lock"

VARIABLES
    project,      \* directories that directly contain elrond.json
    baseName,     \* per directory: its base name (two directories may share one)
    srcLock,      \* per directory: wasm/Cargo.lock of the source tree (at first
                  \* the project has the lock files of all its units, or none)
    srcStale,     \* per directory: it holds wasm/target, meta/target, output of a
                  \* local build (of the whole project, or of none of it)
    scratchExists,\* HARDCODED_BUILD_DIRECTORY exists
    scratch,      \* files of HARDCODED_BUILD_DIRECTORY
    outRoot,      \* the output root directory
    outSub,       \* per informal name: the output subdirectory
    manifest,     \* artifacts.json in the output root
    contracts,    \* BuildArtifactsAccumulator.contracts
    units,        \* contracts_directories
    idx,          \* position of the for loop of main
    args,         \* the toolchain argument list (its --locked flag)
    return_code,  \* build's return_code of the last toolchain invocation
    pc,           \* position of main
    exitStatus,   \* exit status of the process, once pc = "done"
    cause,        \* how the process ended
    completed,    \* directories whose loop body completed, in this run or before
    run,          \* number of the current run
    faults,       \* failures of tools and system calls so far
    log,          \* steps performed in the current run
    dumps,        \* calls of dump_to_file in the current run
    imports_text, \* output of wasm-objdump --details --section Import: its lines
    imports       \* the list _parse_imports_text returns for it

vars == <<project, baseName, completed, run, srcLock, srcStale, scratchExists, scratch, outRoot, outSub,
          manifest, contracts, units, idx, args, return_code, pc, exitStatus,
          cause, faults, log, dumps, imports_text, imports>>

\* The variables of the import parser.
parseVars == <<imports_text, imports>>

fsVars == <<srcLock, srcStale, scratchExists, scratch, outRoot, outSub, manifest>>

\* ------------------------------------------------------------ file values
NoLock == [val |-> "none", owner |-> "none"]

NoDir == [exists |-> FALSE, owner |-> "none", files |-> {}]

NoManifest == [exists |-> FALSE, owner |-> "none", fresh |-> FALSE, entries |-> <<>>]

\* A file of the scratch directory.
SFile(p, d, v) == [path |-> p, from |-> d, val |-> v]

\* A file of an output subdirectory, <stem>.<extension of kind>: the directory
\* whose build wrote it (by), whether its content was made by the current run
\* (fresh), its owner and, for the archive, the paths it holds (has).
OFile(k, s, d, r, o, h) ==
    [kind |-> k, stem |-> s, by |-> d, fresh |-> r, owner |-> o, has |-> h]

\* Path.name of a contract directory, line 93.
BaseName(d) == baseName[d]

FileName(f) == [stem |-> f.stem, kind |-> f.kind]

\* Kind of the output file a scratch path output/<kind> becomes.
OutputPaths == {"output/bytecode", "output/text", "output/abi",
                "output/imports", "output/codehash"}

KindOfPath(p) ==
    CASE p = "output/bytecode" -> "bytecode"
      [] p = "output/text" -> "text"
      [] p = "output/abi" -> "abi"
      [] p = "output/imports" -> "imports"
      [] p = "output/codehash" -> "codehash"

\* The source tree of contract directory d, as copytree copies it.
SourceTree(d) ==
    {SFile("elrond.json", d, "src")}
    \cup (IF srcLock[d].val # "none" THEN {SFile(CargoLock, d, srcLock[d].val)} ELSE {})
    \cup (IF srcStale[d]
          THEN {SFile(p, d, "stale") : p \in TargetDirs \cup {"output/bytecode", "output/abi"}}
          ELSE {})

\* ------------------------------------------------------------------ Init
Init ==
    /\ project \in SUBSET Dirs
    /\ baseName \in [Dirs -> Names]
    /\ \A d \in Dirs : /\ baseName[d] <= d
                       /\ baseName[baseName[d]] = baseName[d]
                       /\ d \notin project => baseName[d] = d
                       /\ d \in project => baseName[d] \in project
    /\ completed = {}
    /\ run = 1
    /\ \E committed \in BOOLEAN :
         srcLock = [d \in Dirs |-> IF committed /\ d \in project
                                   THEN [val |-> "orig", owner |-> "requested"]
                                   ELSE NoLock]
    /\ \E localBuild \in BOOLEAN : srcStale = [d \in Dirs |-> localBuild /\ d \in project]
    /\ scratchExists = FALSE
    /\ scratch = {}
    /\ outRoot \in {[exists |-> FALSE, owner |-> "none"],
                    [exists |-> TRUE, owner |-> "requested"]}
    /\ outSub = [n \in Names |-> NoDir]
    /\ manifest = NoManifest
    /\ contracts = <<>>
    /\ units = <<>>
    /\ idx = 1
    /\ args = [locked |-> FALSE]
    /\ return_code = 0
    /\ pc = "discover"
    /\ exitStatus = 0
    /\ cause = "none"
    /\ faults = 0
    /\ log = {}
    /\ dumps = 0
    /\ imports_text = <<>>
    /\ imports = <<>>

\* --------------------------------------------------------- process exit
\* exit(return_code), line 177: the status the parent sees is the low byte.
ExitStatus(rc) == rc % 256

\* An uncaught Python exception ends the interpreter with status 1.
Raise(why) ==
    /\ pc' = "done"
    /\ exitStatus' = 1
    /\ cause' = why


\* A failure that consumes one of the failures allowed.
CanFail == faults < MaxFaults

Running(at) == pc = at /\ cause = "none"

\* The contract directory the for loop of main is at.
Cur == units[idx]

\* ------------------------------------------------------------- discovery
RECURSIVE SortedSeq(_)
\* sorted(directories), lines 140 and 92.
SortedSeq(S) ==
    IF S = {} THEN <<>>
    ELSE LET m == CHOOSE x \in S : \A y \in S : x <= y
         IN <<m>> \o SortedSeq(S \ {m})

\* The directories in the opposite order, as a glob may yield them.
GlobOrder ==
    LET s == SortedSeq(project)
    IN [i \in 1..Len(s) |-> s[Len(s) + 1 - i]]

\* get_contracts_directories, lines 137-140: the parents of **/elrond.json.
get_contracts_directories == SortedSeq(project)

\* main, line 90.
Discover ==
    /\ Running("discover")
    /\ units' = get_contracts_directories
    /\ pc' = "loop"
    /\ UNCHANGED <<parseVars, project, baseName, run, completed, fsVars, contracts, idx, args, return_code, exitStatus, cause,
                   faults, log, dumps>>

\* A loop that stops after its first iteration.
LoopDoneEarly(i, n) == i > n \/ i > 1

\* The for loop of main is exhausted, line 92.
LoopDone(i, n) == i > n

\* main, line 92: the next contract directory, or the end of the loop.
LoopHead ==
    /\ Running("loop")
    /\ pc' = IF LoopDone(idx, Len(units)) THEN "dump" ELSE "mkdir"
    /\ UNCHANGED <<parseVars, project, baseName, run, completed, fsVars, contracts, units, idx, args, return_code, exitStatus,
                   cause, faults, log, dumps>>

\* main, lines 93-95: output_subdirectory.mkdir(parents=True, exist_ok=True).
MkOutputSubdir ==
    /\ Running("mkdir")
    /\ LET n == BaseName(Cur)
       IN /\ outRoot' = IF outRoot.exists THEN outRoot
                        ELSE [exists |-> TRUE, owner |-> "process"]
          /\ outSub' = IF outSub[n].exists THEN outSub
                       ELSE [outSub EXCEPT ![n] =
                                [exists |-> TRUE, owner |-> "process", files |-> {}]]
    /\ log' = log \cup {<<"mkdir", Cur>>}
    /\ pc' = "copy"
    /\ UNCHANGED <<parseVars, project, baseName, run, completed, srcLock, srcStale, scratchExists, scratch, manifest,
                   contracts, units, idx, args, return_code, exitStatus, cause, faults, dumps>>

\* mkdir(exist_ok=True): an existing directory is accepted.
MkdirExistOk(exists) == FALSE

\* HARDCODED_BUILD_DIRECTORY.mkdir(), line 145: FileExistsError when it exists.
MkdirFails(exists) == exists

\* copy_contract_directory_to_build_directory, lines 143-148.  rmtree with
\* ignore_errors may leave the old directory in place; mkdir then raises.
CopyContractDirectoryToBuildDirectory ==
    /\ Running("copy")
    /\ \E rmtreeFails \in BOOLEAN :
         /\ rmtreeFails => (scratchExists /\ CanFail)
         /\ faults' = IF rmtreeFails THEN faults + 1 ELSE faults
         /\ LET leftExists == scratchExists /\ rmtreeFails
                left == IF rmtreeFails THEN scratch ELSE {}
            IN IF MkdirFails(leftExists)
               THEN /\ Raise("FileExistsError")
                    /\ UNCHANGED <<scratchExists, scratch, log>>
               ELSE /\ scratchExists' = TRUE
                    /\ scratch' = {f \in left : \A g \in SourceTree(Cur) : g.path # f.path}
                                  \cup SourceTree(Cur)
                    /\ log' = log \cup {<<"reset", Cur>>}
                    /\ pc' = "preclean"
                    /\ UNCHANGED <<exitStatus, cause>>
    /\ UNCHANGED <<parseVars, project, baseName, run, completed, srcLock, srcStale, outRoot, outSub, manifest,
                   contracts, units, idx, args, return_code, dumps>>

\* An rmtree that is given a path where nothing is.
UnderNothing(dir) == {}

\* Scratch paths below directory dir.
Under(dir) ==
    IF dir = "output" THEN {f \in scratch : f.path \in OutputPaths}
    ELSE {f \in scratch : f.path = dir}

\* A clean whose rmtree calls remove nothing.
CleanKeepsAll(dirs, failing) == scratch

\* clean, lines 151-159: rmtree of the directories of dirs, each on a
\* best-effort basis (ignore_errors=True); the ones in failing stay.
CleanTo(dirs, failing) ==
    scratch \ UNION {Under(dir) : dir \in dirs \ failing}

CleanStep(dirs, step, next) ==
    \E failing \in SUBSET dirs :
        /\ \A dir \in failing : Under(dir) # {}
        /\ faults + Cardinality(failing) <= MaxFaults
        /\ faults' = faults + Cardinality(failing)
        /\ scratch' = CleanTo(dirs, failing)
        /\ log' = log \cup {<<step, Cur>>}
        /\ pc' = next
        /\ UNCHANGED <<parseVars, project, baseName, run, completed, srcLock, srcStale,
                       scratchExists, outRoot, outSub, manifest, contracts, units,
                       idx, args, return_code, exitStatus, cause, dumps>>

\* main, line 108: clean(build_directory).
PreClean ==
    /\ Running("preclean")
    /\ CleanStep(TargetDirs \cup {"output"}, "preclean", "args")

\* main, line 112: clean(build_directory, clean_output=False).
PostClean ==
    /\ Running("postclean")
    /\ CleanStep(TargetDirs, "postclean", "promote")

\* ------------------------------------------------------------------ build
\* An argument list that never gets --locked.
LockedFlagNever(files) == FALSE

\* cargo_lock.exists(), line 172, on the files of the build directory.
LockedFlag(files) == \E f \in files : f.path = CargoLock

\* build, lines 163-172: the argument list of the toolchain.
BuildArgs ==
    /\ Running("args")
    /\ args' = [locked |-> LockedFlag(scratch)]
    /\ pc' = "toolchain"
    /\ UNCHANGED <<parseVars, project, baseName, run, completed, fsVars, contracts, units, idx,
                   return_code, exitStatus, cause,
                   faults, log, dumps>>

\* A check that takes only a toolchain killed by a signal for a failure.
ToolchainFailedOnSignal(rc) == rc < 0

\* build, line 176: the return code that ends the run.
ToolchainFailed(rc) == rc # 0

\* What a run of cargo run build may do: fail with a return code, or succeed
\* and write the wasm file, the abi file and (when there is none and --locked
\* is not given) wasm/Cargo.lock, or succeed and leave one of the three out.
\* All but the second are failures.
ToolchainOutcomes ==
    {[rc |-> c, lock |-> FALSE, wasm |-> FALSE, abi |-> FALSE] : c \in ReturnCodes \ {0}}
    \cup {[rc |-> 0, lock |-> TRUE, wasm |-> TRUE, abi |-> TRUE],
          [rc |-> 0, lock |-> FALSE, wasm |-> TRUE, abi |-> TRUE],
          [rc |-> 0, lock |-> TRUE, wasm |-> FALSE, abi |-> TRUE],
          [rc |-> 0, lock |-> TRUE, wasm |-> TRUE, abi |-> FALSE]}

\* What cargo run build leaves in the build directory of contract directory d:
\* its target directories and the files of the outcome o.
ToolchainEffect(files, d, locked, o) ==
    LET made ==
            {SFile(p, d, "built") : p \in TargetDirs}
            \cup (IF o.lock /\ ~locked /\ ~(\E f \in files : f.path = CargoLock)
                  THEN {SFile(CargoLock, d, "gen")} ELSE {})
            \cup (IF o.wasm THEN {SFile("output/bytecode", d, "built")} ELSE {})
            \cup (IF o.abi THEN {SFile("output/abi", d, "built")} ELSE {})
    IN {f \in files : \A g \in made : g.path # f.path} \cup made

\* build, lines 174-177: subprocess.run(args, cwd=meta_directory), and
\* exit(return_code) when it is not zero.
RunToolchain ==
    /\ Running("toolchain")
    /\ \E o \in ToolchainOutcomes :
         /\ LET failure == ~(o.rc = 0 /\ o.lock /\ o.wasm /\ o.abi)
            IN /\ failure => CanFail
               /\ faults' = IF failure THEN faults + 1 ELSE faults
         /\ scratch' = ToolchainEffect(scratch, Cur, args.locked, o)
         /\ return_code' = o.rc
         /\ IF ToolchainFailed(o.rc)
            THEN /\ pc' = "done"
                 /\ exitStatus' = ExitStatus(o.rc)
                 /\ cause' = "toolchain"
            ELSE /\ pc' = "extract"
                 /\ UNCHANGED <<exitStatus, cause>>
    /\ log' = log \cup {<<"toolchain", Cur>>}
    /\ UNCHANGED <<parseVars, project, baseName, run, completed, srcLock, srcStale, scratchExists,
                   outRoot, outSub, manifest, contracts, units, idx, args, dumps>>

\* The file written at a path of a directory: it replaces the file of that
\* name, which keeps its owner; a new file belongs to the process.
PutFile(files, f) ==
    LET old == {g \in files : FileName(g) = FileName(f)}
    IN (files \ old)
       \cup {[f EXCEPT !.owner = IF old = {} THEN "process"
                                 ELSE (CHOOSE g \in old : TRUE).owner]}

RECURSIVE PutFiles(_, _)
PutFiles(files, new) ==
    IF new = {} THEN files
    ELSE LET f == CHOOSE x \in new : TRUE
         IN PutFiles(PutFile(files, f), new \ {f})

\* The output file that copytree makes of a file of <build directory>/output.
\* by is the directory the loop is at.
Copied(f, d) ==
    OFile(KindOfPath(f.path), f.from, d, f.val = "built", "process", {})

\* build, lines 179-184: find the wasm file, generate_wabt_artifacts,
\* generate_code_hash_artifact, copytree of output/ to the output subdirectory.
\* CalledProcessError of wasm2wat or wasm-objdump (check_output, lines 199 and
\* 203, with the return code of the tool) is not caught.
BuildExtract ==
    /\ Running("extract")
    /\ LET wasms == {f \in scratch : f.path = "output/bytecode"}
       IN IF wasms = {}
          THEN /\ Raise("no file matches")
               /\ UNCHANGED <<scratch, outSub, faults, log>>
          ELSE \E w \in wasms, wat, objdump \in BOOLEAN, code \in ReturnCodes :
                 /\ ~wat => ~objdump
                 /\ code = 0 <=> objdump
                 /\ ~objdump => CanFail
                 /\ faults' = IF objdump THEN faults ELSE faults + 1
                 /\ LET sib(p) == SFile(p, w.from, "built")
                        put(fs, g) == {f \in fs : f.path # g.path} \cup {g}
                        s1 == IF wat THEN put(scratch, sib("output/text")) ELSE scratch
                        s2 == put(put(s1, sib("output/imports")), sib("output/codehash"))
                        n == BaseName(Cur)
                    IN IF ~wat \/ ~objdump
                       THEN /\ Raise("CalledProcessError")
                            /\ scratch' = s1
                            /\ log' = log \cup {<<"CalledProcessError", Cur, code>>}
                            /\ UNCHANGED outSub
                       ELSE /\ scratch' = s2
                            /\ outSub' = [outSub EXCEPT ![n].files =
                                   PutFiles(@, {Copied(f, Cur) :
                                                f \in {g \in s2 : g.path \in OutputPaths}})]
                            /\ log' = log \cup {<<"extract", Cur>>}
                            /\ pc' = "postclean"
                            /\ UNCHANGED <<exitStatus, cause>>
    /\ UNCHANGED <<parseVars, project, baseName, run, completed, srcLock, srcStale, scratchExists,
                   outRoot, manifest, contracts, units, idx, args, return_code, dumps>>

\* ---------------------------------------------------------------- promote
\* A chown that is left out.
ChownSkipped(owner) == owner

\* os.chown(path, owner_id, group_id), lines 191, 265 and 267: the new owner of
\* a path that belonged to owner.
Chown(owner) == "requested"

\* A copy whose destination is the first directory of the project tree.
CopyLockToFirst(locks, d, lock) == [locks EXCEPT ![1] = lock]

\* shutil.copy(from_path, to_path), lines 188-190: to_path is wasm/Cargo.lock
\* of contract directory d.
CopyLockTo(locks, d, lock) == [locks EXCEPT ![d] = lock]

\* promote_cargo_lock_to_contract_directory, lines 187-191: shutil.copy raises
\* when the build directory has no wasm/Cargo.lock; os.chown may fail.
PromoteCargoLock ==
    /\ Running("promote")
    /\ LET locks == {f \in scratch : f.path = CargoLock}
       IN IF locks = {}
          THEN /\ Raise("FileNotFoundError")
               /\ UNCHANGED <<srcLock, faults, log>>
          ELSE \E l \in locks, chownFails \in BOOLEAN :
                 LET copied == [val |-> l.val,
                                owner |-> IF srcLock[Cur].val = "none" THEN "process"
                                          ELSE srcLock[Cur].owner]
                 IN /\ chownFails => CanFail
                    /\ IF chownFails
                       THEN /\ srcLock' = CopyLockTo(srcLock, Cur, copied)
                            /\ faults' = faults + 1
                            /\ Raise("chown of Cargo.lock")
                            /\ UNCHANGED log
                       ELSE /\ srcLock' = CopyLockTo(srcLock, Cur,
                                              [copied EXCEPT !.owner = Chown(@)])
                            /\ log' = log \cup {<<"promote", Cur>>}
                            /\ pc' = "archive"
                            /\ UNCHANGED <<faults, exitStatus, cause>>
    /\ UNCHANGED <<parseVars, project, baseName, run, completed, srcStale, scratchExists, scratch,
                   outRoot, outSub, manifest, contracts, units, idx, args,
                   return_code, dumps>>

\* archive_source_code, lines 249-256: <informal name>.tar of the build directory.
ArchiveSourceCode ==
    /\ Running("archive")
    /\ LET n == BaseName(Cur)
           tar == OFile("src", n, Cur, TRUE, "process", {f.path : f \in scratch})
       IN outSub' = [outSub EXCEPT ![n].files = PutFile(@, tar)]
    /\ log' = log \cup {<<"archive", Cur>>}
    /\ pc' = "gather"
    /\ UNCHANGED <<parseVars, project, baseName, run, completed, srcLock, srcStale, scratchExists,
                   scratch, outRoot, manifest, contracts, units, idx, args,
                   return_code, exitStatus, cause, faults, dumps>>

\* ----------------------------------------------------------------- gather
\* A pattern that every file matches.
MatchesAny(files, kind) == files

\* folder.rglob(pattern), line 236, for the pattern of a kind.
Matches(files, kind) == {f \in files : f.kind = kind}

\* find_file_in_folder, lines 235-246, when there is a match: files[0].  The
\* order of rglob is the order in which the file system lists the directory,
\* modelled by the stem it lists first; the other stems follow in order.
find_file_in_folder(files, kind, first) ==
    LET m == Matches(files, kind)
    IN IF \E f \in m : f.stem = first
       THEN CHOOSE f \in m : f.stem = first
       ELSE CHOOSE f \in m : \A g \in m : f.stem <= g.stem

\* find_file_in_folder, lines 241-244: the kinds whose pattern more than one
\* file matches; for these a warning is logged and files[0] is returned.
MoreMatch(files) == {k \in KindSet : Cardinality(Matches(files, k)) > 1}

\* add_artifact, lines 52-56.
AddEntry(acc, n, entry) ==
    [m \in DOMAIN acc \cup {n} |-> IF m = n THEN entry ELSE acc[m]]

\* gather_artifacts, lines 38-50 (main, line 121), and the end of the loop body.
GatherArtifacts ==
    /\ Running("gather")
    /\ LET n == BaseName(Cur)
           files == outSub[n].files
       IN IF \E k \in KindSet : Matches(files, k) = {}
          THEN /\ Raise("no file matches")
               /\ UNCHANGED <<contracts, idx, completed, log>>
          ELSE \E first \in {f.stem : f \in files} :
                 /\ contracts' = AddEntry(contracts, n,
                        [k \in KindSet |-> FileName(find_file_in_folder(files, k, first))])
                 /\ idx' = idx + 1
                 /\ completed' = completed \cup {Cur}
                 /\ log' = log \cup {<<"gather", Cur>>}
                              \cup {<<"warning", Cur, k>> : k \in MoreMatch(files)}
                 /\ pc' = "loop"
                 /\ UNCHANGED <<exitStatus, cause>>
    /\ UNCHANGED <<parseVars, project, baseName, run, fsVars, units, args, return_code, faults, dumps>>

\* ------------------------------------------------------------------- dump
\* dump_to_file, lines 58-60 (main, line 124): open(file, "w") raises when the
\* output root does not exist.
DumpToFile ==
    /\ Running("dump")
    /\ IF ~outRoot.exists
       THEN /\ Raise("FileNotFoundError")
            /\ UNCHANGED <<manifest, dumps>>
       ELSE /\ manifest' = [exists |-> TRUE,
                            owner |-> IF manifest.exists THEN manifest.owner
                                      ELSE "process",
                            fresh |-> TRUE,
                            entries |-> contracts]
            /\ dumps' = dumps + 1
            /\ pc' = "chown"
            /\ UNCHANGED <<exitStatus, cause>>
    /\ UNCHANGED <<parseVars, project, baseName, run, completed, srcLock, srcStale, scratchExists, scratch, outRoot,
                   outSub, contracts, units, idx, args, return_code, faults, log>>

\* -------------------------------------------------------------- ownership
\* The order of os.walk(output_directory), lines 263-267: the directories of
\* the root, the files of the root, then the files of each directory (the
\* files of one directory are taken as one step of the walk).
WalkOrder ==
    LET subs == SortedSeq({n \in Names : outSub[n].exists})
    IN [i \in 1..Len(subs) |-> <<"dir", subs[i]>>]
       \o (IF manifest.exists THEN << <<"file", 0>> >> ELSE <<>>)
       \o [i \in 1..Len(subs) |-> <<"files", subs[i]>>]

\* The paths chowned before the walk reaches position k.
Chowned(k) == {WalkOrder[i] : i \in 1..(k - 1)}

\* adjust_output_ownership, lines 259-267 (main, line 126): os.chown of every
\* directory and file below the root; an OSError of os.chown is not caught.
AdjustOutputOwnership ==
    /\ Running("chown")
    /\ \E k \in 1..(Len(WalkOrder) + 1) :
         LET done == Chowned(k)
             failed == k <= Len(WalkOrder)
         IN /\ failed => CanFail
            /\ faults' = IF failed THEN faults + 1 ELSE faults
            /\ outSub' = [n \in Names |->
                  [exists |-> outSub[n].exists,
                   owner |-> IF <<"dir", n>> \in done THEN Chown(outSub[n].owner)
                             ELSE outSub[n].owner,
                   files |-> IF <<"files", n>> \in done
                             THEN {[f EXCEPT !.owner = Chown(@)] : f \in outSub[n].files}
                             ELSE outSub[n].files]]
            /\ manifest' = IF <<"file", 0>> \in done
                           THEN [manifest EXCEPT !.owner = Chown(@)]
                           ELSE manifest
            /\ IF failed
               THEN Raise("chown of output")
               ELSE /\ pc' = "done"
                    /\ exitStatus' = 0
                    /\ cause' = "success"
    /\ UNCHANGED <<parseVars, project, baseName, run, completed, srcLock, srcStale, scratchExists, scratch, outRoot,
                   contracts, units, idx, args, return_code, log, dumps>>

\* ---------------------------------------------------------------- next run
\* What was written before the run that starts now is no longer fresh.
Aged ==
    [n \in Names |-> [outSub[n] EXCEPT
        !.files = {[f EXCEPT !.fresh = FALSE] : f \in outSub[n].files}]]

\* The process has ended; main is run again on the file system it left.
StartRun ==
    /\ pc = "done"
    /\ run < MaxRuns
    /\ run' = run + 1
    /\ pc' = "discover"
    /\ exitStatus' = 0
    /\ cause' = "none"
    /\ contracts' = <<>>
    /\ units' = <<>>
    /\ idx' = 1
    /\ args' = [locked |-> FALSE]
    /\ return_code' = 0
    /\ log' = {}
    /\ dumps' = 0
    /\ outSub' = Aged
    /\ manifest' = [manifest EXCEPT !.fresh = FALSE]
    /\ UNCHANGED <<parseVars, project, baseName, completed, srcLock, srcStale, scratchExists,
                   scratch, outRoot, faults>>

\* ----------------------------------------------------------- import dump
\* A line of the dump is the sequence of its words; the punctuation other
\* than the dot between module and field is left out.  For an imported item
\* wasm-objdump prints " - <kind>[i] ... <- <module>.<field>".
ImportKinds == {"func", "global"}

Modules == {"env", "wasi"}

Fields == {"getGasLeft", "getenv", "func_count"}

ImportLine(kind, module, field) == <<"-", kind, module, ".", field>>

\* The line that heads the section.
HeaderLine == <<"Import">>

Lines ==
    {ImportLine(k, m, f) : k \in ImportKinds, m \in Modules, f \in Fields}
    \cup {HeaderLine}

\* text.splitlines(), line 220: the dumps of at most MaxLines lines.
Texts == UNION {[1..n -> Lines] : n \in 0..MaxLines}

\* The words of the dump that have sub as a substring.
WordsWith(sub) ==
    CASE sub = "func" -> {"func", "func_count"}
      [] sub = "env" -> {"env", "getenv"}

\* sub in line, line 221: Python's substring test on the text of the line.
In(sub, line) == \E i \in DOMAIN line : line[i] \in WordsWith(sub)

\* line.split(".")[-1], line 222: what follows the last dot, or the whole
\* line when it has no dot.
LastSegment(line) ==
    LET dots == {i \in DOMAIN line : line[i] = "."}
        last == IF dots = {} THEN 0 ELSE CHOOSE i \in dots : \A j \in dots : j <= i
    IN SubSeq(line, last + 1, Len(line))

\* _parse_imports_text, lines 219-223.
parse_imports_text(text) ==
    LET kept(line) == In("func", line) /\ In("env", line)
        lines == SelectSeq(text, kept)
    IN [i \in DOMAIN lines |-> LastSegment(lines[i])]

\* The parser is given a dump of wasm-objdump.
InitParse ==
    /\ imports_text \in Texts
    /\ imports = <<>>
    /\ pc = "parse"
    /\ project = {}
    /\ baseName = [d \in Dirs |-> d]
    /\ completed = {}
    /\ run = 1
    /\ srcLock = [d \in Dirs |-> NoLock]
    /\ srcStale = [d \in Dirs |-> FALSE]
    /\ scratchExists = FALSE
    /\ scratch = {}
    /\ outRoot = [exists |-> FALSE, owner |-> "none"]
    /\ outSub = [n \in Names |-> NoDir]
    /\ manifest = NoManifest
    /\ contracts = <<>>
    /\ units = <<>>
    /\ idx = 1
    /\ args = [locked |-> FALSE]
    /\ return_code = 0
    /\ exitStatus = 0
    /\ cause = "none"
    /\ faults = 0
    /\ log = {}
    /\ dumps = 0

\* generate_wabt_artifacts, line 206: imports = _parse_imports_text(imports_text).
ParseImportsText ==
    /\ pc = "parse"
    /\ imports' = parse_imports_text(imports_text)
    /\ pc' = "parsed"
    /\ UNCHANGED <<imports_text, project, baseName, completed, run, fsVars, contracts,
                   units, idx, args, return_code, exitStatus, cause, faults, log, dumps>>

NextParse == ParseImportsText

SpecParse == InitParse /\ [][NextParse]_vars

\* ---------------------------------------------------------------- logging
\* The logger.info and logger.warning calls of the source, lines 152, 174, 198,
\* 202, 216, 242, 256 and 260: what a finished step has written to the log.
MessagesOf(step) ==
    CASE step \in {"preclean", "postclean"} -> {"Cleaning"}
      [] step = "toolchain" -> {"Building"}
      [] step = "extract" -> {"Convert WASM to WAT", "Extract imports", "Code hash"}
      [] step = "archive" -> {"Created archive"}
      [] step = "warning" -> {"More files match"}
      [] step = "chown" -> {"Adjust ownership of output directory"}
      [] OTHER -> {}

\* The messages the run has logged for the steps it has finished;
\* adjust_output_ownership logs before it walks, line 260.
Logged ==
    UNION {MessagesOf(e[1]) : e \in log}
    \cup (IF cause \in {"success", "chown of output"} THEN MessagesOf("chown") ELSE {})

Next ==
    \/ Discover
    \/ LoopHead
    \/ MkOutputSubdir
    \/ CopyContractDirectoryToBuildDirectory
    \/ PreClean
    \/ BuildArgs
    \/ RunToolchain
    \/ BuildExtract
    \/ PostClean
    \/ PromoteCargoLock
    \/ ArchiveSourceCode
    \/ GatherArtifacts
    \/ DumpToFile
    \/ AdjustOutputOwnership
    \/ StartRun

Spec == Init /\ [][Next]_vars

\* ------------------------------------------------------------------ claims
\* The steps of the loop body logged for contract directory d in this run.
Did(step, d) == <<step, d>> \in log

UnitSet == {units[i] : i \in 1..Len(units)}

\* The manifest lists every discovered unit with six kinds, each naming a file
\* that is in the unit's output subdirectory.
ManifestComplete ==
    /\ Cardinality(DOMAIN manifest.entries) = Len(units)
    /\ \A d \in UnitSet :
         LET n == BaseName(d)
         IN /\ n \in DOMAIN manifest.entries
            /\ DOMAIN manifest.entries[n] = KindSet
            /\ \A k \in KindSet :
                 \E f \in outSub[n].files : FileName(f) = manifest.entries[n][k]

\* Every directory and file below the output root belongs to the requested owner.
OwnershipNormalized ==
    /\ manifest.exists => manifest.owner = "requested"
    /\ \A n \in Names :
         outSub[n].exists =>
            /\ outSub[n].owner = "requested"
            /\ \A f \in outSub[n].files : f.owner = "requested"

\* C1: after a run in which a toolchain invocation exited non-zero, the output
\* root holds no artifacts.json, whatever it held before the run.
C1_NoManifestAfterToolchainFailure ==
    (pc = "done" /\ cause = "toolchain") => ~manifest.exists

\* C2: the manifest a run has written holds one entry for every discovered
\* unit, each with the six kinds, each naming a file of the unit's output
\* subdirectory, also when two unit directories share a base name.
C2_ManifestEntryForEveryUnit ==
    manifest.fresh => ManifestComplete

\* C3: when the toolchain returns a non-zero code c for the k-th unit, the
\* process ends at once with exit status c: no later step of that unit, no
\* step at all for the units after it, no manifest written by the run.
C3_ToolchainFailureAborts ==
    return_code # 0 =>
        /\ pc = "done"
        /\ cause = "toolchain"
        /\ return_code > 0 => exitStatus = return_code
        /\ exitStatus # 0
        /\ \A step \in {"extract", "postclean", "promote", "archive", "gather"} :
             ~Did(step, units[idx])
        /\ \A j \in (idx + 1)..Len(units) :
             \A step \in {"mkdir", "reset", "preclean", "toolchain"} :
                ~Did(step, units[j])
        /\ dumps = 0

C3_Witness ==
    /\ pc = "done"
    /\ return_code = 2
    /\ exitStatus = 2
    /\ idx = 1
    /\ Len(units) = 2

\* C4: a run writes the manifest at most once, and only when every discovered
\* unit has gone through build, post-clean, promotion, archive and collection.
C4_ManifestWrittenOnceAtEnd ==
    /\ dumps <= 1
    /\ manifest.fresh <=> dumps = 1
    /\ dumps = 1 =>
         /\ pc \in {"chown", "done"}
         /\ idx = Len(units) + 1
         /\ \A d \in UnitSet :
              \A step \in {"toolchain", "extract", "postclean", "promote",
                           "archive", "gather"} : Did(step, d)

C4_Witness ==
    /\ dumps = 1
    /\ Len(units) = 2
    /\ pc = "chown"

\* C5: a run ends either with exit status zero, a complete manifest and every
\* output path owned by the requested owner, or with a non-zero exit status
\* and no manifest in the output root.
C5_TwoFinalStates ==
    pc = "done" =>
        \/ /\ exitStatus = 0
           /\ manifest.fresh
           /\ ManifestComplete
           /\ OwnershipNormalized
        \/ /\ exitStatus # 0
           /\ ~manifest.exists

\* C6: at the toolchain invocation the argument list has --locked exactly when
\* the build directory holds wasm/Cargo.lock, which is exactly when the unit's
\* source directory holds it.
C6_LockedIffLockFile ==
    pc = "toolchain" =>
        /\ args.locked <=> (\E f \in scratch : f.path = CargoLock)
        /\ (\E f \in scratch : f.path = CargoLock) <=> srcLock[Cur].val # "none"

C6_Witness ==
    /\ pc = "toolchain"
    /\ args.locked
    /\ srcLock[Cur].val = "orig"

\* C7: at the toolchain invocation for a unit every file of the build directory
\* is a copy of a file of that unit's source tree; the toolchain is invoked only
\* after the reset of the build directory for that unit succeeded.
C7_NoCrossUnitLeakage ==
    /\ pc = "toolchain" =>
         /\ scratch \subseteq SourceTree(Cur)
         /\ \A f \in scratch : f.from = Cur
    /\ \A d \in Dirs : Did("toolchain", d) => Did("reset", d)

C7_Witness ==
    /\ pc = "toolchain"
    /\ idx = 2
    /\ Did("archive", units[1])
    /\ scratch # {}

\* C8: a unit whose build did not produce an abi file does not get through the
\* collection of its artifacts: an abi file that was in the output subdirectory
\* before does not count.
C8_MissingAbiFails ==
    \A d \in Dirs :
        Did("gather", d) =>
            \E f \in outSub[BaseName(d)].files :
                f.kind = "abi" /\ f.by = d /\ f.fresh

\* C9: when the ownership normalization fails for a path, the run still ends
\* with exit status zero and the manifest stays in place.
C9_OwnershipFailureIsSoft ==
    (pc = "done" /\ cause = "chown of output") =>
        (exitStatus = 0 /\ manifest.fresh)

\* C10: once the loop body has completed for a unit, wasm/Cargo.lock of its
\* source directory exists, belongs to the requested owner and (at that
\* moment) is the one of the build directory; every later toolchain invocation
\* for that unit has --locked.
C10_LockPromoted ==
    \A d \in completed :
        /\ srcLock[d].val # "none"
        /\ srcLock[d].owner = "requested"
        /\ (pc = "loop" /\ idx > 1 /\ units[idx - 1] = d) =>
              SFile(CargoLock, d, srcLock[d].val) \in scratch
        /\ (pc = "toolchain" /\ Cur = d) => args.locked

C10_Witness ==
    /\ run = 2
    /\ pc = "toolchain"
    /\ Cur \in completed
    /\ srcLock[Cur].val = "gen"
    /\ args.locked

\* The archive of the unit the loop is at, just written.
ArchiveOfCur ==
    CHOOSE f \in outSub[BaseName(Cur)].files : f.kind = "src" /\ f.stem = BaseName(Cur)

\* C11 (as stated): the archive <unit>.tar is written only after the toolchain
\* and the post-clean have finished for the unit; it holds wasm/Cargo.lock and
\* the output subdirectory, and neither wasm/target nor meta/target.
C11_ArchiveWithoutTargets ==
    pc = "gather" =>
        /\ Did("toolchain", Cur) /\ Did("postclean", Cur)
        /\ CargoLock \in ArchiveOfCur.has
        /\ {"output/bytecode", "output/codehash"} \subseteq ArchiveOfCur.has
        /\ ArchiveOfCur.has \cap TargetDirs = {}

\* The directories of TargetDirs that the build directory holds.
TargetsIn(files) == {t \in TargetDirs : \E f \in files : f.path = t}

\* C11 (amended): the post-clean leaves wasm/target or meta/target in the build
\* directory only for an rmtree that failed (as many directories as rmtree
\* calls failed); the lock promotion does not touch the build directory; the
\* archive <unit>.tar is written after it, from the build directory as the
\* toolchain and the post-clean left it, and holds wasm/Cargo.lock and the
\* output subdirectory.
C11_ArchiveAfterBestEffortClean ==
    [][/\ (pc = "postclean" /\ pc' = "promote") =>
             Cardinality(TargetsIn(scratch')) = faults' - faults
       /\ pc = "promote" => scratch' = scratch
       /\ pc' = "archive" => pc = "promote"
       /\ pc = "archive" =>
            /\ pc' = "gather"
            /\ Did("toolchain", Cur) /\ Did("postclean", Cur)
            /\ ArchiveOfCur'.by = Cur /\ ArchiveOfCur'.fresh
            /\ ArchiveOfCur'.has = {f.path : f \in scratch}
            /\ CargoLock \in ArchiveOfCur'.has
            /\ {"output/bytecode", "output/codehash"} \subseteq ArchiveOfCur'.has]_vars

C11_Witness ==
    /\ pc = "gather"
    /\ CargoLock \in ArchiveOfCur.has
    /\ "output/codehash" \in ArchiveOfCur.has
    /\ ArchiveOfCur.has \cap TargetDirs = {}
    /\ srcStale[Cur]

\* C12: after a run that ended in success every directory and file of the
\* output tree, the output root included, belongs to the requested owner.
C12_OutputTreeOwned ==
    (pc = "done" /\ cause = "success") =>
        /\ outRoot.exists => outRoot.owner = "requested"
        /\ OwnershipNormalized

\* C13: a run that discovers zero units is not fatal: it ends with exit status
\* zero, invokes no toolchain, writes no artifact file, and reports that
\* nothing was discovered.
C13_EmptyDiscoveryReported ==
    (pc = "done" /\ Len(units) = 0) =>
        /\ exitStatus = 0
        /\ cause = "success"
        /\ \A d \in Dirs : ~Did("toolchain", d)
        /\ \A n \in Names : \A f \in outSub[n].files : ~f.fresh
        /\ "No contracts found" \in Logged

\* wasm2wat or wasm-objdump returned code for contract directory d.
ToolFailed(d, code) == <<"CalledProcessError", d, code>> \in log

\* C14: when wasm2wat or wasm-objdump fails, the run ends at once with the
\* exit status of the failing tool, as for a toolchain failure: no later step
\* of the unit, no step for the units after it, no manifest written.
C14_ToolFailureExitsWithToolCode ==
    \A d \in Dirs, code \in ReturnCodes :
        ToolFailed(d, code) =>
            /\ pc = "done"
            /\ code > 0 => exitStatus = code
            /\ exitStatus # 0
            /\ \A step \in {"postclean", "promote", "archive", "gather"} : ~Did(step, d)
            /\ dumps = 0

\* A line that imports a function from the env namespace.
EnvFunctionImport(line) ==
    /\ Len(line) = 5
    /\ line[2] = "func"
    /\ line[3] = "env"

\* The fields of the function imports from env, in order, with duplicates.
EnvFunctionImports(text) ==
    LET lines == SelectSeq(text, EnvFunctionImport)
    IN [i \in DOMAIN lines |-> <<lines[i][5]>>]

\* C15: for every import dump, _parse_imports_text returns the trailing
\* identifiers of exactly the lines that import a function from the env
\* namespace, in order of appearance and with duplicates; the other lines
\* contribute nothing.
C15_OnlyEnvFunctionImports ==
    pc = "parsed" => imports = EnvFunctionImports(imports_text)

\* C16: discovery returns every directory that directly contains elrond.json,
\* each once, sorted by path; evaluated again on the unchanged tree it gives
\* the same list; main goes through the units in that order.
C16_DiscoverySortedAndOrdered ==
    pc # "discover" =>
        /\ UnitSet = project
        /\ Len(units) = Cardinality(project)
        /\ \A i, j \in 1..Len(units) : i < j => units[i] < units[j]
        /\ units = get_contracts_directories
        /\ idx \in 1..(Len(units) + 1)
        /\ \A i, j \in 1..Len(units) :
             (i < j /\ \E step \in {"mkdir", "reset", "toolchain", "gather"} :
                         Did(step, units[j]))
                => Did("gather", units[i])
        /\ \A j \in 1..Len(units) : Did("mkdir", units[j]) => j <= idx

C16_Witness ==
    /\ pc = "toolchain"
    /\ Len(units) = 2
    /\ idx = 2
    /\ Did("gather", units[1])
    /\ ~Did("toolchain", units[2])

\* The files of the build directory that a local build had left in the source
\* tree: wasm/target, meta/target, output.
Carried == {f \in scratch : f.val = "stale"}

\* The directory, among those clean() removes, that holds path p.
CleanedDir(p) == IF p \in OutputPaths THEN "output" ELSE p

\* C17 (as stated): when the toolchain is invoked for a unit, the build
\* directory holds none of wasm/target, meta/target and output carried over
\* from the source tree, also when the removal of one of them failed.
C17_NothingCarriedOver ==
    pc = "toolchain" => Carried = {}

\* C17 (amended): the pre-clean leaves wasm/target, meta/target or output
\* carried over from the source tree in the build directory only for an rmtree
\* that failed (as many directories as rmtree calls failed); the toolchain is
\* invoked on the build directory as the pre-clean left it.
C17_CarriedOnlyWhenRmtreeFailed ==
    [][/\ (pc = "preclean" /\ pc' = "args") =>
             Cardinality({CleanedDir(f.path) : f \in Carried'}) = faults' - faults
       /\ pc = "args" => (pc' = "toolchain" /\ scratch' = scratch)
       /\ pc' = "toolchain" => pc = "args"]_vars

C17_Witness ==
    /\ pc = "toolchain"
    /\ srcStale[Cur]
    /\ Carried # {}
    /\ \A f \in Carried : f.path \in OutputPaths

\* find_file_in_folder has logged that more than one file matches the pattern
\* of kind k in the output subdirectory of d.
Warned(d, k) == <<"warning", d, k>> \in log

Warnings == {e \in log : e[1] = "warning"}

\* C18: find_file_in_folder raises when no file matches the pattern, and only
\* then; when files match it returns one of them, and more than one match is
\* logged as a warning and does not end the run.
C18_NoMatchRaisesMoreMatchWarns ==
    /\ cause = "no file matches" =>
         /\ pc = "done" /\ exitStatus = 1
         /\ IF Did("archive", Cur)
            THEN \E k \in KindSet : Matches(outSub[BaseName(Cur)].files, k) = {}
            ELSE \A f \in scratch : f.path # "output/bytecode"
    /\ \A n \in DOMAIN contracts : \A k \in KindSet :
         /\ contracts[n][k].kind = k
         /\ \E f \in outSub[n].files : f.kind = k /\ FileName(f) = contracts[n][k]
    /\ LET warned == Warnings
       IN /\ \A e \in warned :
               /\ Did("gather", e[2])
               /\ BaseName(e[2]) \in DOMAIN contracts
               /\ Cardinality(Matches(outSub[BaseName(e[2])].files, e[3])) > 1
          /\ warned # {} => "More files match" \in Logged

C18_Witness ==
    /\ pc = "done"
    /\ cause = "success"
    /\ \E d \in Dirs : Warned(d, "bytecode") /\ ~Warned(d, "src")

\* C19: a step of a run changes nothing in the project source tree (the unit
\* markers, the names, the directories a local build left) except
\* wasm/Cargo.lock of the unit whose build is at the lock promotion, after its
\* toolchain run and post-clean; the other units' lock files stay as they are.
C19_SourceTreeFrame ==
    [][/\ project' = project
       /\ baseName' = baseName
       /\ srcStale' = srcStale
       /\ \A d \in Dirs :
            srcLock'[d] # srcLock[d] =>
               /\ pc = "promote"
               /\ d = Cur
               /\ Did("toolchain", d) /\ Did("postclean", d)
               /\ return_code = 0]_vars

C19_Witness ==
    /\ pc = "archive"
    /\ Len(units) = 2
    /\ idx = 1
    /\ srcLock[units[1]].val = "gen"
    /\ srcLock[units[2]].val = "none"
    /\ srcStale[units[1]]

====
